---------------------------- MODULE Spec2Model ----------------------------
(***************************************************************************)
(* The streaming SHA-256 digest of sha256-rs: the blocking loop calc       *)
(* (src/src/lib.rs), the suspendable loop async_calc in its two revisions  *)
(* (src/src/async_digest.rs, which clears the buffer before every read,    *)
(* and src/src/lib.rs, which does not), the two engines behind             *)
(* CalculatorSelector, and the path-based entry points of TrySha256Digest. *)
(*                                                                         *)
(* The input is a byte source fed by a producer through a bounded pipe     *)
(* (tokio::io::duplex in tests.rs, a file behind a BufReader elsewhere):   *)
(* the producer delivers the bytes of B in pieces of any size, then closes *)
(* or fails.  A read_inner returns the bytes available, cut to the room    *)
(* the destination buffer has.                                             *)
(*                                                                         *)
(* The compression function of SHA-256 and the widths of the real program  *)
(* are scaled down: blocks of BlockLen bytes, a 16-bit chaining value, a   *)
(* read buffer of BUF_CAP bytes.  The structure (block buffering, padding  *)
(* with the message length, hex encoding of the digest bytes) is kept.     *)
(***************************************************************************)
EXTENDS Integers, Sequences, FiniteSets, TLC

\* ------------------------------------------------------------------ bounds

\* Longest input B.
MaxLen == 3
\* Capacity of the read buffer ([0u8; 1024], BytesMut::with_capacity(1024)), scaled.
BUF_CAP == 2
\* Capacity of the pipe between producer and reader (tokio::io::duplex(64)), scaled.
PipeCap == 3
\* What BytesMut::chunk_mut reserves when the buffer is full (64), scaled.
Reserve == 1
\* Block length of the compression function (64 bytes), scaled.
BlockLen == 2

\* The byte values of the model.
Byte == {0, 1}

\* The chaining value and the digest are 16 bits wide.
DigestMod == 256 * 256

\* --------------------------------------------------------------- sequences

Min(a, b) == IF a <= b THEN a ELSE b

Max(a, b) == IF a >= b THEN a ELSE b

Take(s, n) == SubSeq(s, 1, n)

Drop(s, n) == SubSeq(s, n + 1, Len(s))

RECURSIVE Flatten(_)
Flatten(ss) == IF ss = <<>> THEN <<>> ELSE Head(ss) \o Flatten(Tail(ss))

\* Every byte sequence of length at most n.
SeqsUpTo(n) == UNION {[1..k -> Byte] : k \in 0..n}

\* ------------------------------------------------------------ the engines

\* The compression function: the chaining value h and one full block.
RECURSIVE CompressFrom(_, _, _)
CompressFrom(h, blk, i) ==
  IF i > Len(blk) THEN h
  ELSE CompressFrom((h * 31 + i * (blk[i] + 1)) % DigestMod, blk, i + 1)

Compress(h, blk) == CompressFrom((h * 7 + 3) % DigestMod, blk, 1)

\* A partial block, the 0x80 marker, zeros to the end of the block.
PadBlock(part) ==
  [i \in 1..BlockLen |->
     IF i <= Len(part) THEN part[i] ELSE IF i = Len(part) + 1 THEN 128 ELSE 0]

\* The closing block: the message length in bits, low byte last.
LenBlock(bits) ==
  [i \in 1..BlockLen |-> IF i = BlockLen THEN bits % 256 ELSE 0]

\* The digest bytes of a chaining value, high byte first.
OutputBytes(h) == <<h \div 256, h % 256>>

\* sha2::Sha256: a chaining value, a count of blocks, a partial block.
Sha256_new == [state |-> 27145, block_len |-> 0, buffer |-> <<>>]

RECURSIVE Sha256_update(_, _)
Sha256_update(st, data) ==
  IF data = <<>> THEN st
  ELSE LET b == Append(st.buffer, Head(data)) IN
       IF Len(b) = BlockLen
       THEN Sha256_update([state |-> Compress(st.state, b),
                           block_len |-> st.block_len + 1,
                           buffer |-> <<>>], Tail(data))
       ELSE Sha256_update([st EXCEPT !.buffer = b], Tail(data))

Sha256_finalize(st) ==
  LET bits == 8 * (st.block_len * BlockLen + Len(st.buffer))
  IN  OutputBytes(Compress(Compress(st.state, PadBlock(st.buffer)), LenBlock(bits)))

\* Sha256::digest(data): the one-shot digest.
Sha256_digest(data) == Sha256_finalize(Sha256_update(Sha256_new, data))

\* openssl::sha::Sha256: a chaining value, a bit count, the pending bytes.
OpenSsl_new == [h |-> 27145, Nl |-> 0, data |-> <<>>, num |-> 0]

RECURSIVE OpenSsl_update(_, _)
OpenSsl_update(st, data) ==
  IF data = <<>> THEN st
  ELSE LET room == BlockLen - st.num
           n    == Min(room, Len(data))
           d    == st.data \o Take(data, n)
       IN  IF st.num + n = BlockLen
           THEN OpenSsl_update([h |-> Compress(st.h, d), Nl |-> st.Nl + 8 * n,
                                data |-> <<>>, num |-> 0], Drop(data, n))
           ELSE [h |-> st.h, Nl |-> st.Nl + 8 * n, data |-> d, num |-> st.num + n]

OpenSsl_finish(st) ==
  OutputBytes(Compress(Compress(st.h, PadBlock(st.data)), LenBlock(st.Nl)))

\* ---------------------------------------------------------- hex::encode

HexChars == <<"0", "1", "2", "3", "4", "5", "6", "7",
              "8", "9", "a", "b", "c", "d", "e", "f">>

RECURSIVE hex_encode(_)
hex_encode(bytes) ==
  IF bytes = <<>> THEN <<>>
  ELSE <<HexChars[(Head(bytes) \div 16) + 1], HexChars[(Head(bytes) % 16) + 1]>>
       \o hex_encode(Tail(bytes))

\* fn __digest__(data): hex::encode(Sha256::digest(data)).
__digest__(data) == hex_encode(Sha256_digest(data))

\* ------------------------------------------------- CalculatorSelector

Selectors == {"Sha256", "OpenSslSha256"}

NoEngine == [none |-> TRUE]

new(s) == IF s = "Sha256" THEN Sha256_new ELSE OpenSsl_new

\* Mutant of update_inner: the alternate engine's wrapper drops the chunk.
update_inner_dropped(s, st, data) ==
  IF s = "Sha256" THEN Sha256_update(st, data) ELSE st

update_inner(s, st, data) ==
  IF s = "Sha256" THEN Sha256_update(st, data) ELSE OpenSsl_update(st, data)

finish_inner(s, st) ==
  IF s = "Sha256" THEN Sha256_finalize(st) ELSE OpenSsl_finish(st)

\* ------------------------------------------------------------- results

OpenErrors == {"NotFound", "PermissionDenied"}

ReadErrors == {"Interrupted", "BrokenPipe"}

NoErr == "none"

NoResult == [tag |-> "None"]

Ok(v) == [tag |-> "Ok", val |-> v]

Err(e) == [tag |-> "Err", err |-> e]

\* --------------------------------------------------------------- state

\* "calc": fn calc of lib.rs.  "async_calc": async fn async_calc of
\* async_digest.rs.  "lib_async_calc": async fn async_calc of lib.rs.
Variants == {"calc", "async_calc", "lib_async_calc"}

IsAsync(v) == v \in {"async_calc", "lib_async_calc"}

VARIABLES
  B,         \* the bytes of the input
  variant,   \* which streaming loop runs
  sel,       \* which engine it runs with
  pathErr,   \* the error opening the path fails with, or NoErr
  pc,        \* position of the computation
  rest,      \* bytes the producer has not delivered yet
  avail,     \* bytes delivered and not read yet
  closed,    \* the producer has closed its end
  srcErr,    \* the error the source fails with, or NoErr
  buf,       \* the read buffer's bytes (its length is the buffer's length)
  cap,       \* the read buffer's capacity
  len,       \* what the last read_inner returned
  selector,  \* the engine state, NoEngine before creation and after finish
  result,    \* what the operation returned
  calls      \* the calls made on input and selector, in order

vars == <<B, variant, sel, pathErr, pc, rest, avail, closed, srcErr,
          buf, cap, len, selector, result, calls>>

\* let mut buf = [0u8; 1024]  /  BytesMut::with_capacity(1024)
NewBuf(v) == IF v = "calc" THEN [i \in 1..BUF_CAP |-> 0] ELSE <<>>

\* The path-based operations of TrySha256Digest.
HasPathOperation(v, s) == ~(v = "calc" /\ s = "OpenSslSha256")

Init ==
  /\ B \in SeqsUpTo(MaxLen)
  /\ variant \in Variants
  /\ sel \in Selectors
     \* digest (calc, Sha256), async_digest (async_calc, Sha256) and
     \* async_openssl_digest (async_calc, OpenSslSha256) open the path themselves;
     \* calc with OpenSslSha256 is given a reader its caller opened
  /\ pathErr \in IF HasPathOperation(variant, sel) THEN OpenErrors \cup {NoErr} ELSE {NoErr}
  /\ pc = "open"
  /\ rest = B
  /\ avail = <<>>
  /\ closed = FALSE
  /\ srcErr = NoErr
  /\ buf = <<>>
  /\ cap = 0
  /\ len = 0
  /\ selector = NoEngine
  /\ result = NoResult
  /\ calls = <<>>

\* ------------------------------------------------------------ the source

\* The source is observed by read_inner alone: its steps are taken while the
\* computation is at a read (about to poll it, or suspended in it).
AtRead == pc \in {"read", "pending"}

\* The producer writes the next k bytes into the pipe.
Deliver ==
  /\ AtRead /\ ~closed /\ srcErr = NoErr
  /\ \E k \in 1..Min(Len(rest), PipeCap - Len(avail)) :
       /\ avail' = avail \o Take(rest, k)
       /\ rest' = Drop(rest, k)
  /\ UNCHANGED <<B, variant, sel, pathErr, pc, closed, srcErr, buf, cap, len,
                 selector, result, calls>>

\* The producer has written everything and drops its end.
Close ==
  /\ AtRead /\ ~closed /\ srcErr = NoErr
  /\ rest = <<>>
  /\ closed' = TRUE
  /\ UNCHANGED <<B, variant, sel, pathErr, pc, rest, avail, srcErr, buf, cap, len,
                 selector, result, calls>>

\* The underlying resource fails, before or after the last byte was delivered:
\* the reads from now on return the error.
Fail ==
  /\ AtRead /\ srcErr = NoErr
  /\ \E e \in ReadErrors : srcErr' = e
  /\ UNCHANGED <<B, variant, sel, pathErr, pc, rest, avail, closed, buf, cap, len,
                 selector, result, calls>>

\* ------------------------------------------------- path-based operations

\* Mutant of OpenErr: a failed open is taken for an empty input.
OpenErr_empty(e) == Ok(__digest__(<<>>))

\* fs::File::open(self)? on a failing open: the error is the result.
OpenErr(e) == Err(e)

\* TrySha256Digest::digest / async_digest / async_openssl_digest: the file is
\* opened, and on success the engine is created and the loop entered with a
\* fresh buffer.
Open ==
  /\ pc = "open"
  /\ \/ /\ pathErr = NoErr
        /\ pc' = "loop"
        /\ selector' = new(sel)
        /\ buf' = NewBuf(variant)
        /\ cap' = BUF_CAP
        /\ UNCHANGED result
     \/ /\ pathErr # NoErr
        /\ result' = OpenErr(pathErr)
        /\ pc' = "done"
        /\ UNCHANGED <<selector, buf, cap>>
  /\ UNCHANGED <<B, variant, sel, pathErr, rest, avail, closed, srcErr, len, calls>>

\* ------------------------------------------------------ the streaming loop

\* buf.clear()
clear(b) == <<>>

\* The top of the loop: async_calc of async_digest.rs clears the buffer.
LoopTop ==
  /\ pc = "loop"
  /\ buf' = IF variant = "async_calc" THEN clear(buf) ELSE buf
  /\ pc' = "read"
  /\ UNCHANGED <<B, variant, sel, pathErr, rest, avail, closed, srcErr, cap, len,
                 selector, result, calls>>

\* BytesMut::chunk_mut: a full buffer reserves more before it is written to.
ChunkMutCap(c, blen) == IF c = blen THEN Max(2 * c, blen + Reserve) ELSE c

\* The room read_inner may fill: the whole array (calc), the spare capacity
\* behind the buffer's length (read_buf).
Room(v, b, c) == IF v = "calc" THEN Len(b) ELSE ChunkMutCap(c, Len(b)) - Len(b)

\* The buffer after a read of the bytes d: written over the front (calc),
\* appended at the buffer's length (read_buf).
Filled(v, b, d) == IF v = "calc" THEN d \o Drop(b, Len(d)) ELSE b \o d

\* Mutant of IsEof: a short read is taken for the end of the input.
IsEof_short(n) == n < BUF_CAP

\* if len == 0 { break; }
IsEof(n) == n = 0

\* A read_inner that returns Ok(n): the bytes available cut to the room, or
\* 0 at the end of the input.
ReadOk ==
  /\ pc = "read"
  /\ srcErr = NoErr
  /\ avail # <<>> \/ closed
  /\ LET n == Min(Len(avail), Room(variant, buf, cap))
         d == Take(avail, n)
     IN  /\ buf' = Filled(variant, buf, d)
         /\ cap' = IF variant = "calc" THEN cap ELSE ChunkMutCap(cap, Len(buf))
         /\ len' = n
         /\ avail' = Drop(avail, n)
         /\ calls' = Append(calls, [op |-> "read_inner", res |-> "Ok", data |-> d])
         /\ pc' = IF IsEof(n) THEN "finish" ELSE "update"
  /\ UNCHANGED <<B, variant, sel, pathErr, rest, closed, srcErr, selector, result>>

\* Mutant of PropagateErr: a failed read ends the loop like a read of 0.
PropagateErr_break(e) == [pc |-> "finish", result |-> NoResult]

\* let len = input.read_inner(&mut buf)?  on an error
PropagateErr(e) == [pc |-> "done", result |-> Err(e)]

\* A read_inner that returns Err(e).
ReadErr ==
  /\ pc = "read"
  /\ srcErr # NoErr
  /\ calls' = Append(calls, [op |-> "read_inner", res |-> "Err", data |-> <<>>])
  /\ pc' = PropagateErr(srcErr).pc
  /\ result' = PropagateErr(srcErr).result
  /\ UNCHANGED <<B, variant, sel, pathErr, rest, avail, closed, srcErr, buf, cap, len,
                 selector>>

\* A read_inner(...).await with nothing to read yet: the task is suspended.
ReadPending ==
  /\ pc = "read"
  /\ IsAsync(variant)
  /\ srcErr = NoErr /\ avail = <<>> /\ ~closed
  /\ pc' = "pending"
  /\ calls' = Append(calls, [op |-> "read_inner", res |-> "Pending", data |-> <<>>])
  /\ UNCHANGED <<B, variant, sel, pathErr, rest, avail, closed, srcErr, buf, cap, len,
                 selector, result>>

\* Mutant of Ready: the close of the source wakes nobody.
Ready_no_close(a, c, e) == a # <<>> \/ e # NoErr

\* What wakes a suspended read: data, the end of the input, a failure.
Ready(a, c, e) == a # <<>> \/ c \/ e # NoErr

\* The scheduler resumes the task, which polls the read again.
Wake ==
  /\ pc = "pending"
  /\ Ready(avail, closed, srcErr)
  /\ pc' = "read"
  /\ UNCHANGED <<B, variant, sel, pathErr, rest, avail, closed, srcErr, buf, cap, len,
                 selector, result, calls>>

\* Mutant of ChunkOf: the whole buffer, not its first len bytes.
ChunkOf_whole(b, n) == b

\* &buf[0..len]
ChunkOf(b, n) == SubSeq(b, 1, n)

\* selector.update_inner(&buf[0..len])
Update ==
  /\ pc = "update"
  /\ LET chunk == ChunkOf(buf, len)
     IN  /\ selector' = update_inner(sel, selector, chunk)
         /\ calls' = Append(calls, [op |-> "update_inner", res |-> "Ok", data |-> chunk])
  /\ pc' = "loop"
  /\ UNCHANGED <<B, variant, sel, pathErr, rest, avail, closed, srcErr, buf, cap, len,
                 result>>

\* let hash = selector.finish_inner(); Ok(hex::encode(hash))
Finish ==
  /\ pc = "finish"
  /\ result' = Ok(hex_encode(finish_inner(sel, selector)))
  /\ selector' = NoEngine
  /\ calls' = Append(calls, [op |-> "finish_inner", res |-> "Ok", data |-> <<>>])
  /\ pc' = "done"
  /\ UNCHANGED <<B, variant, sel, pathErr, rest, avail, closed, srcErr, buf, cap, len>>

\* The writer of the source: it writes all of B, then closes.
Writer == Deliver \/ Close

Producer == Writer \/ Fail

Consumer == Open \/ LoopTop \/ ReadOk \/ ReadErr \/ ReadPending \/ Wake \/ Update \/ Finish

Next == Producer \/ Consumer

Spec == Init /\ [][Next]_vars

\* The writer of the source goes on until it has closed (unless the source
\* fails, which nothing forces); the scheduler runs the computation whenever
\* it can take a step.
FairSpec == Spec /\ WF_vars(Writer) /\ WF_vars(Consumer)

\* ------------------------------------------------------------ the record

\* The data of the calls of cs with operation o and outcome r, in call order.
RECURSIVE DataOf(_, _, _)
DataOf(cs, o, r) ==
  IF cs = <<>> THEN <<>>
  ELSE (IF Head(cs).op = o /\ Head(cs).res = r THEN <<Head(cs).data>> ELSE <<>>)
       \o DataOf(Tail(cs), o, r)

\* The bytes each successful read_inner returned (<<>> for a read of length 0).
ReadChunks == DataOf(calls, "read_inner", "Ok")

\* The chunks passed to update_inner.
UpdateChunks == DataOf(calls, "update_inner", "Ok")

NonEmpty(ss) == SelectSeq(ss, LAMBDA c : c # <<>>)

CountOf(o, r) == Len(DataOf(calls, o, r))

Returned == pc = "done"

ReturnedOk == pc = "done" /\ result.tag = "Ok"

\* The engine s fed the chunks cs in order, then finished and hex-encoded.
RECURSIVE Fed(_, _, _)
Fed(s, st, cs) == IF cs = <<>> THEN st ELSE Fed(s, update_inner(s, st, Head(cs)), Tail(cs))

Replay(s, cs) == hex_encode(finish_inner(s, Fed(s, new(s), cs)))

OtherEngine(s) == IF s = "Sha256" THEN "OpenSslSha256" ELSE "Sha256"

\* ------------------------------------------------------------------ C1

\* C1: whenever a streaming loop (calc, or either async_calc) returns a digest,
\* in any interleaving with the producer, the digest is the one-shot digest of B.
\* Stated of every async_calc of the repository; async_calc of lib.rs breaks it.
C1_ParityWithOneShot == ReturnedOk => result.val = __digest__(B)

\* ------------------------------------------------------------------ C2

\* C2: however the source splits B into chunks, calc returns the one-shot
\* digest of B, having passed exactly the bytes of B to update_inner; for the
\* empty B update_inner is never called and the digest is that of <<>>.
C2_CalcChunkingIndependent ==
  (variant = "calc" /\ ReturnedOk) =>
     /\ result.val = __digest__(B)
     /\ Flatten(UpdateChunks) = B
     /\ B = <<>> => (UpdateChunks = <<>> /\ result.val = __digest__(<<>>))

\* calc has digested a three-byte input that arrived in single-byte chunks.
C2_Witness ==
  /\ variant = "calc" /\ ReturnedOk
  /\ Len(B) = 3
  /\ Len(UpdateChunks) = 3

\* ------------------------------------------------------------------ C3

\* C3: at every point of both loops the chunks passed to update_inner are, one
\* by one and in order, the non-empty chunks the reads returned; outside the
\* step between a read and its update there are as many of the one as of the
\* other.  async_calc of lib.rs breaks it.
C3_UpdatesAreTheReads ==
  LET rs == NonEmpty(ReadChunks)
      us == UpdateChunks
  IN  /\ Len(us) <= Len(rs)
      /\ \A i \in 1..Len(us) : i <= Len(rs) => us[i] = rs[i]
      /\ pc # "update" => Len(us) = Len(rs)

\* ------------------------------------------------------------------ C4

\* C4: in every async_calc the buffer's length is 0 whenever read_inner is
\* called or polled again.  async_calc of lib.rs breaks it.
C4_BufferEmptyAtRead ==
  (IsAsync(variant) /\ pc \in {"read", "pending"}) => Len(buf) = 0

\* ------------------------------------------------------------------ C5

ReadFailedAt(i) == calls[i].op = "read_inner" /\ calls[i].res = "Err"

ReadFailed == \E i \in 1..Len(calls) : ReadFailedAt(i)

\* C5: once a read_inner has returned an error, that call is the last call
\* made (no read, update or finish follows it), the computation has returned,
\* and what it returned is exactly that error, not a digest.
C5_ReadErrorPropagates ==
  ReadFailed =>
     /\ ReadFailedAt(Len(calls))
     /\ \A i \in 1..(Len(calls) - 1) : ~ReadFailedAt(i)
     /\ CountOf("finish_inner", "Ok") = 0
     /\ pc = "done"
     /\ srcErr # NoErr
     /\ result = Err(srcErr)

\* A read failed after two successful reads and their updates.
C5_Witness ==
  /\ ReadFailed
  /\ Len(UpdateChunks) = 2
  /\ result = Err("BrokenPipe")

\* ------------------------------------------------------------------ C6

\* C6: when opening the path fails, the operation returns the open's error:
\* no engine, no buffer, no call on input or selector, no digest.
C6_OpenErrorReturned ==
  pathErr # NoErr =>
     /\ pc \in {"open", "done"}
     /\ selector = NoEngine
     /\ calls = <<>>
     /\ pc = "done" => result = Err(pathErr)
     /\ result.tag # "Ok"

\* async_openssl_digest has returned NotFound.
C6_Witness ==
  /\ pathErr = "NotFound" /\ pc = "done"
  /\ variant = "async_calc" /\ sel = "OpenSslSha256"
  /\ result = Err("NotFound")

\* ------------------------------------------------------------------ C7

LoopEntered == pathErr = NoErr /\ pc # "open"

\* The loop has been left: finish_inner is next, or the function returned.
LoopLeft == LoopEntered /\ pc \in {"finish", "done"}

\* The loop was left by break.
LeftByBreak == LoopEntered /\ (pc = "finish" \/ ReturnedOk)

\* The last read_inner to return returned what r and the length test say.
LastRead(r, zero) ==
  /\ calls # <<>>
  /\ \E i \in 1..Len(calls) :
       /\ calls[i].op = "read_inner" /\ calls[i].res = r
       /\ (calls[i].data = <<>>) = zero
       /\ \A j \in (i + 1)..Len(calls) : calls[j].op # "read_inner"

\* C7 as stated: the loop is left if and only if the last read_inner returned
\* length 0.
C7_LeftIffZeroRead == LoopLeft <=> LastRead("Ok", TRUE)

\* C7 as amended: the loop is left by break if and only if the last read_inner
\* returned length 0, and it is left at all if and only if the last read_inner
\* returned length 0 or an error.
C7_LeftIffZeroReadOrError ==
  /\ LeftByBreak <=> LastRead("Ok", TRUE)
  /\ LoopLeft <=> (LastRead("Ok", TRUE) \/ LastRead("Err", TRUE))

\* The loop was left by break after three iterations with an update.
C7_Witness ==
  /\ LeftByBreak /\ pc = "finish"
  /\ Len(UpdateChunks) = 3

\* ------------------------------------------------------------------ C8

C9_BufferBounded ==
  /\ Len(buf) <= BUF_CAP
  /\ cap <= BUF_CAP
  /\ \A i \in 1..Len(UpdateChunks) :
       Len(UpdateChunks[i]) >= 1 /\ Len(UpdateChunks[i]) <= BUF_CAP

\* ------------------------------------------------------------------ C10

\* On the success path of calc and of async_calc (async_digest.rs):
\* finish_inner was called once, as the last call, after every update_inner,
\* and the chunks passed to update_inner are all the bytes of the source.
SuccessShape ==
  (ReturnedOk /\ variant # "lib_async_calc") =>
     /\ CountOf("finish_inner", "Ok") = 1
     /\ calls[Len(calls)].op = "finish_inner"
     /\ Flatten(UpdateChunks) = B
     /\ rest = <<>> /\ avail = <<>>

\* C10: with a source that delivers its bytes and closes, or fails, and a
\* scheduler that resumes the task, every run returns; SuccessShape holds of
\* the runs that return a digest.
C10_ReturnsInTheEnd == <>Returned /\ []SuccessShape

\* async_calc has returned the digest of a three-byte input after suspending
\* in two reads.
C10_Witness ==
  /\ ReturnedOk /\ variant = "async_calc"
  /\ Len(B) = 3
  /\ CountOf("read_inner", "Pending") >= 2

=============================================================================
